---- MODULE Spec2Model ----
(***************************************************************************)
(* Model of tgas_sf/sf.py: the selection-function lookup of SelectTGAS.    *)
(*                                                                         *)
(* Numbers.  Magnitudes are integers, colours are in tenths (J-K = 0.5 is  *)
(* 5), longitudes and latitudes are whole degrees.  nside arguments of the *)
(* subclass constructors are in tenths (8.7 is 87) so that int() and       *)
(* "{:.0f}".format() can be told apart.  Completeness values are in        *)
(* thousandths.                                                            *)
(*                                                                         *)
(* numpy values.  An array-like value is a record [nd, v]: nd = 0 is a     *)
(* scalar (v has one element), nd = 1 is a one-dimensional array.  A call  *)
(* either returns such a value or raises: [err |-> "IndexError"].          *)
(* Boolean-mask assignment follows numpy >= 1.13: a mask whose length is   *)
(* not the array's raises IndexError.                                      *)
(***************************************************************************)
EXTENDS Integers, Sequences, FiniteSets, TLC

\* ------------------------------------------------------------- bounds

\* Longest input array of a call.
MaxLen == 3

\* Number of threads that call the instance concurrently.
NumThreads == 2

\* ------------------------------------------------------ numpy values

Scalar(x) == [nd |-> 0, v |-> <<x>>]

Arr(s) == [nd |-> 1, v |-> s]

Raise(e) == [err |-> e]

IsErr(r) == "err" \in DOMAIN r

Size(a) == Len(a.v)

\* Element i of a after broadcasting to a longer shape.
At(a, i) == IF Size(a) = 1 THEN a.v[1] ELSE a.v[i]

Max2(x, y) == IF x >= y THEN x ELSE y

Abs(x) == IF x < 0 THEN -x ELSE x

\* numpy's broadcasting rule for shapes () and (n,).
Broadcastable(a, b) ==
    \/ a.nd = 0
    \/ b.nd = 0
    \/ Size(a) = Size(b)
    \/ Size(a) = 1
    \/ Size(b) = 1

BroadcastNd(a, b) == Max2(a.nd, b.nd)

BroadcastSize(a, b) == Max2(Size(a), Size(b))

\* np.atleast_1d: a scalar becomes an array of length 1, an array is itself.
atleast_1d(a) == [nd |-> 1, v |-> a.v]

\* np.min / np.max of mag_bins (a function on 0..B-1).
npmin(bins) == CHOOSE x \in {bins[i] : i \in DOMAIN bins} :
    \A i \in DOMAIN bins : x <= bins[i]

npmax(bins) == CHOOSE x \in {bins[i] : i \in DOMAIN bins} :
    \A i \in DOMAIN bins : x >= bins[i]

\* np.clip with a_min and a_max exchanged.
clip_swapped(mag, lo, hi) ==
    [nd |-> mag.nd,
     v |-> [i \in 1..Size(mag) |->
        LET up == IF mag.v[i] < hi THEN hi ELSE mag.v[i]
        IN  IF up > lo THEN lo ELSE up]]

\* np.clip(mag, lo, hi) = minimum(maximum(mag, lo), hi), element-wise.
clip(mag, lo, hi) ==
    [nd |-> mag.nd,
     v |-> [i \in 1..Size(mag) |->
        LET up == IF mag.v[i] < lo THEN lo ELSE mag.v[i]
        IN  IF up > hi THEN hi ELSE up]]

\* An argmin that returns the last index attaining the minimum.
argmin_last(bins, x) ==
    CHOOSE m \in DOMAIN bins :
        /\ \A k \in DOMAIN bins : Abs(bins[m] - x) <= Abs(bins[k] - x)
        /\ \A k \in DOMAIN bins : Abs(bins[k] - x) = Abs(bins[m] - x) => k <= m

\* argmin over axis 0 of |mag_bins - x|: the first index attaining the minimum.
argmin(bins, x) ==
    CHOOSE m \in DOMAIN bins :
        /\ \A k \in DOMAIN bins : Abs(bins[m] - x) <= Abs(bins[k] - x)
        /\ \A k \in DOMAIN bins : Abs(bins[k] - x) = Abs(bins[m] - x) => m <= k

\* np.abs(np.subtract.outer(mag_bins, mag)).argmin(0): one index per element.
nearest_idx(bins, mag) ==
    [nd |-> mag.nd, v |-> [i \in 1..Size(mag) |-> argmin(bins, mag.v[i])]]

\* --------------------------------------------- healpy.ang2pix (nested)

\* cos(theta) = sin(b) in units of 1e-4, for the latitudes the model queries.
CosThetaE4(b) ==
    CASE b = 90 -> 10000
      [] b = 25 -> 4226
      [] b = 24 -> 4067
      [] b = 0 -> 0
      [] b = -24 -> -4067
      [] b = -25 -> -4226
      [] b = -60 -> -8660
      [] b = -90 -> -10000

\* sqrt(3 * (1 - |cos(theta)|)) in units of 1e-4 (used in the polar caps only).
PolarRootE4(b) ==
    CASE Abs(b) = 90 -> 0
      [] Abs(b) = 60 -> 6340
      [] OTHER -> 10000

RECURSIVE spread_bits(_)
spread_bits(x) == IF x = 0 THEN 0 ELSE (x % 2) + 4 * spread_bits(x \div 2)

xyf2nest(nside, ix, iy, face) ==
    face * nside * nside + spread_bits(ix) + 2 * spread_bits(iy)

\* Pixel of one point; l, b in degrees.
ang2pix_nest(nside, l, b) ==
    LET z == CosThetaE4(b)
        lm == l % 360
    IN  IF 3 * Abs(z) <= 20000
        THEN
            LET jp == (nside * (180000 + 4000 * lm - 27 * z)) \div 360000
                jm == (nside * (180000 + 4000 * lm + 27 * z)) \div 360000
                ifp == jp \div nside
                ifm == jm \div nside
                face == IF ifp = ifm
                        THEN (IF ifp = 4 THEN 4 ELSE ifp + 4)
                        ELSE IF ifp < ifm THEN ifp ELSE ifm + 4
            IN  xyf2nest(nside, jm % nside, nside - (jp % nside) - 1, face)
        ELSE
            LET ntt == IF lm \div 90 > 3 THEN 3 ELSE lm \div 90
                tp90 == lm - 90 * ntt
                jp0 == (tp90 * nside * PolarRootE4(b)) \div 900000
                jm0 == ((90 - tp90) * nside * PolarRootE4(b)) \div 900000
                jp == IF jp0 >= nside THEN nside - 1 ELSE jp0
                jm == IF jm0 >= nside THEN nside - 1 ELSE jm0
            IN  IF z >= 0
                THEN xyf2nest(nside, nside - jm - 1, nside - jp - 1, ntt)
                ELSE xyf2nest(nside, jp, jm, ntt + 8)

\* lb2pix(nside, l, b): theta = pi/2 - deg2rad(b), phi = deg2rad(l), then
\* healpy.ang2pix broadcasts theta against phi.
lb2pix(nside, l, b) ==
    IF ~Broadcastable(l, b)
    THEN Raise("ValueError")
    ELSE [nd |-> BroadcastNd(l, b),
          v |-> [i \in 1..BroadcastSize(l, b) |->
                    ang2pix_nest(nside, At(l, i), At(b, i))]]

\* ------------------------------------------------- the files on disk

\* Magnitude bins of the archives (mag_bins is indexed from 0, as in numpy).
BinsA == [i \in 0..2 |-> 10 + 2 * i]

BinsB == [i \in 0..3 |-> IF i = 3 THEN 13 ELSE 9 + i]

\* A map of npix pixels over the given bins, in thousandths; entries of
\* neighbouring pixels and bins differ, so a lookup at the wrong (pixel, bin)
\* is a different value.
Archive(npix, bins, seed) ==
    [keys |-> {"map", "mag_bins"},
     map |-> [p \in 0..(npix - 1) |->
                [m \in DOMAIN bins |-> (seed + 4 * p + m) % 1001]],
     mag_bins |-> bins]

\* A path is <<stem, n>>: the packaged "<stem><n>.dict" of the maps directory,
\* or a file of the caller's own.
PackagedStems == {"tycho2_nside", "tgas_rave_nside"}

UserPaths == {<<"user", 12>>, <<"user", 13>>, <<"user", 48>>, <<"nokeys", 12>>,
              <<"absent", 0>>}

Exists(path) ==
    \/ path[1] \in PackagedStems /\ path[2] \in {8, 32}
    \/ path[1] \in {"user", "nokeys"}

\* What np.load returns for an existing path.  The packaged file of
\* resolution k holds 12*k*k pixels; the bins and the grid values are sample
\* data (the code reads them, it does not fix them).  A caller's own file
\* <<"user", n>> holds n pixels, <<"nokeys", n>> lacks the key 'map'.
Load(path) ==
    CASE path[1] = "tycho2_nside" -> Archive(12 * path[2] * path[2], BinsA, 1)
      [] path[1] = "tgas_rave_nside" ->
            Archive(12 * path[2] * path[2], IF path[2] = 8 THEN BinsA ELSE BinsB, 7)
      [] path[1] = "user" ->
            Archive(path[2], IF path[2] = 48 THEN BinsB ELSE BinsA, 3)
      [] path[1] = "nokeys" -> [keys |-> {"mag_bins"}, mag_bins |-> BinsA]

\* ------------------------------------------------------- construction

BASE == "SelectionFunction"

TGAS == "SelectionFunctionTGAS"

RAVE == "SelectionFunctionTGASRAVE"

\* int(np.sqrt(npix / 12.)): the largest k with 12*k*k <= npix.
derive_nside(npix) ==
    CHOOSE k \in 0..npix : 12 * k * k <= npix /\ npix < 12 * (k + 1) * (k + 1)

\* SelectionFunction.__init__(sf_str): the outcome and the attributes set.
base_init(path) ==
    IF ~Exists(path)
    THEN [outcome |-> "IOError", opened |-> path,
          map |-> <<>>, mag_bins |-> <<>>, nside |-> 0]
    ELSE LET sf == Load(path)
         IN  IF ~({"map", "mag_bins"} \subseteq sf.keys)
             THEN [outcome |-> "KeyError", opened |-> path,
                   map |-> <<>>, mag_bins |-> <<>>, nside |-> 0]
             ELSE [outcome |-> "ok", opened |-> path,
                   map |-> sf.map, mag_bins |-> sf.mag_bins,
                   nside |-> derive_nside(Cardinality(DOMAIN sf.map))]

\* int(nside) for a positive nside given in tenths.
int_of(t) == t \div 10

\* "{:.0f}".format(nside): round to nearest, halves to even.
format_0f(t) ==
    LET q == t \div 10
        r == t % 10
    IN  IF r < 5 THEN q
        ELSE IF r > 5 THEN q + 1
        ELSE IF q % 2 = 0 THEN q ELSE q + 1

\* SelectionFunctionTGAS.__init__ / SelectionFunctionTGASRAVE.__init__.
subclass_init(stem, t) ==
    IF int_of(t) \notin {8, 32}
    THEN [outcome |-> "ValueError", opened |-> <<>>,
          map |-> <<>>, mag_bins |-> <<>>, nside |-> 0]
    ELSE base_init(<<stem, format_0f(t)>>)

StemOf(c) == IF c = TGAS THEN "tycho2_nside" ELSE "tgas_rave_nside"

\* nside arguments tried, in tenths: 8, 32, 8.7, 32.5, 16, 1.
NsideArgs == {80, 320, 87, 325, 160, 10}

CtorArgs(c) == IF c = BASE THEN UserPaths ELSE NsideArgs

construct(c, a) == IF c = BASE THEN base_init(a) ELSE subclass_init(StemOf(c), a)

\* ------------------------------------------------------------- queries

\* Thresholds of the RAVE cut: |b| < 25 degrees and J-K < 0.5 (in tenths).
LatCut == 25

ColCut == 5

\* self.map[pix, mag_idx]: integer-array indexing broadcasts its two index
\* arrays and returns a new array (a scalar for two scalar indices).
fancy_index(grid, pix, idx) ==
    IF ~Broadcastable(pix, idx)
    THEN Raise("IndexError")
    ELSE [nd |-> BroadcastNd(pix, idx),
          v |-> [i \in 1..BroadcastSize(pix, idx) |-> grid[At(pix, i)][At(idx, i)]]]

\* SelectionFunction.__call__(l, b, mag).
base_call(grid, bins, ns, l, b, mag) ==
    LET magc == clip(mag, npmin(bins), npmax(bins))
        pix == lb2pix(ns, l, b)
    IN  IF IsErr(pix) THEN pix
        ELSE fancy_index(grid, pix, nearest_idx(bins, magc))

\* The mask with <= for both comparisons.
cut_mask_nonstrict(b, col) ==
    LET b1 == atleast_1d(b)
        c1 == atleast_1d(col)
    IN  IF ~Broadcastable(b1, c1)
        THEN Raise("ValueError")
        ELSE Arr([i \in 1..BroadcastSize(b1, c1) |->
                    Abs(At(b1, i)) <= LatCut /\ At(c1, i) <= ColCut])

\* The mask with the colour threshold one tenth lower.
cut_mask_narrow(b, col) ==
    LET b1 == atleast_1d(b)
        c1 == atleast_1d(col)
    IN  IF ~Broadcastable(b1, c1)
        THEN Raise("ValueError")
        ELSE Arr([i \in 1..BroadcastSize(b1, c1) |->
                    Abs(At(b1, i)) < LatCut /\ At(c1, i) < ColCut - 1])

\* (np.abs(np.atleast_1d(b)) < 25.) & (np.atleast_1d(col) < 0.5)
cut_mask(b, col) ==
    LET b1 == atleast_1d(b)
        c1 == atleast_1d(col)
    IN  IF ~Broadcastable(b1, c1)
        THEN Raise("ValueError")
        ELSE Arr([i \in 1..BroadcastSize(b1, c1) |->
                    Abs(At(b1, i)) < LatCut /\ At(c1, i) < ColCut])

\* fracs[mask] = 0.: a boolean index must have the length of the array.
zero_where(fracs, mask) ==
    IF IsErr(mask) THEN mask
    ELSE IF Size(mask) # Size(fracs) THEN Raise("IndexError")
    ELSE Arr([i \in 1..Size(fracs) |-> IF mask.v[i] THEN 0 ELSE fracs.v[i]])

\* SelectionFunctionTGASRAVE.__call__(l, b, mag, col).
rave_call(grid, bins, ns, l, b, mag, col) ==
    LET looked == base_call(grid, bins, ns, l, b, mag)
    IN  IF IsErr(looked) THEN looked
        ELSE zero_where(atleast_1d(looked), cut_mask(b, col))

\* The stored grid if fracs were a view of self.map: the zeros land in it.
StoreAfterCutAliased(grid, pix, idx, mask) ==
    IF IsErr(pix) \/ IsErr(mask) THEN grid
    ELSE IF ~Broadcastable(pix, idx) THEN grid
    ELSE IF Size(mask) # BroadcastSize(pix, idx) THEN grid
    ELSE [p \in DOMAIN grid |-> [m \in DOMAIN grid[p] |->
            IF \E i \in 1..Size(mask) :
                mask.v[i] /\ At(pix, i) = p /\ At(idx, i) = m
            THEN 0 ELSE grid[p][m]]]

\* The stored grid after fracs[mask] = 0.  fracs comes from integer-array
\* indexing (and atleast_1d of a scalar), so it never aliases self.map.
StoreAfterCut(grid, pix, idx, mask) == grid

\* sky_plot rejecting the two ends of the range as well.
sky_plot_inclusive(grid, bins, mag) ==
    IF mag >= npmax(bins) \/ mag <= npmin(bins)
    THEN Raise("ValueError")
    ELSE [idx |-> argmin(bins, mag),
          slice |-> [p \in DOMAIN grid |-> grid[p][argmin(bins, mag)]]]

\* sky_plot(mag): the ValueError, or the slice self.map[:, idx] handed to
\* healpy.mollview.
sky_plot(grid, bins, mag) ==
    IF mag > npmax(bins) \/ mag < npmin(bins)
    THEN Raise("ValueError")
    ELSE [idx |-> argmin(bins, mag),
          slice |-> [p \in DOMAIN grid |-> grid[p][argmin(bins, mag)]]]

\* Sum of col over the pixels lo..hi of the grid.
RECURSIVE column_sum(_, _, _, _)
column_sum(grid, m, lo, hi) ==
    IF lo > hi THEN 0
    ELSE IF lo = hi THEN grid[lo][m]
    ELSE LET mid == (lo + hi) \div 2
         IN  column_sum(grid, m, lo, mid) + column_sum(grid, m, mid + 1, hi)

\* magnitude_plot(): the line plotted, mag_bins against np.mean(self.map,
\* axis=0) (the mean cut to whole thousandths).
magnitude_plot(grid, bins) ==
    [x |-> bins,
     y |-> [m \in DOMAIN bins |->
              column_sum(grid, m, 0, Cardinality(DOMAIN grid) - 1)
                  \div Cardinality(DOMAIN grid)]]

\* -------------------------------------------------------------- state

VARIABLES
    phase,      \* "new": not constructed; "live": constructed; "failed": __init__ raised
    ctor,       \* the constructor call: class, argument, file opened, outcome
    map,        \* self.map
    mag_bins,   \* self.mag_bins
    nside,      \* self.nside
    last,       \* the call the single caller has just made, with its outcome
    th          \* per thread: the position in __call__ and its local variables

vars == <<phase, ctor, map, mag_bins, nside, last, th>>

Threads == 1..NumThreads

\* No argument / no value.
NoArg == [nd |-> 0, v |-> <<>>]

NoCall == [op |-> "none", l |-> NoArg, b |-> NoArg, mag |-> NoArg, col |-> NoArg,
           out |-> NoArg]

NoArgs == [l |-> NoArg, b |-> NoArg, mag |-> NoArg, col |-> NoArg]

\* args: what the thread's caller passed; mag, pix, mag_idx, fracs: the locals
\* of __call__ (mag is rebound by the clip); out: what the call returned.
IdleThread == [pc |-> "idle", args |-> NoArgs, mag |-> NoArg, pix |-> NoArg,
               mag_idx |-> NoArg, fracs |-> NoArg, out |-> NoArg]

\* ------------------------------------------------------------- inputs

Lons == <<0, 200>>

Lats == <<24, 25, -25, 90, -60>>

Mags == <<8, 11, 12, 16>>

Cols == <<4, 5>>

SkyMags == {8, 9, 10, 11, 13, 14, 16}

\* The n values of vals from position k on, cyclically.
Window(vals, k, n) == [i \in 1..n |-> vals[((k + i - 2) % Len(vals)) + 1]]

ScalarsOf(vals) == {Scalar(vals[k]) : k \in 1..Len(vals)}

ArraysOf(vals, starts) ==
    {Arr(Window(vals, k, n)) : k \in starts, n \in 1..MaxLen}

LInputs == ScalarsOf(Lons) \cup ArraysOf(Lons, {1})

BInputs == ScalarsOf(Lats) \cup ArraysOf(Lats, {1, 2})

MagInputs == ScalarsOf(Mags) \cup ArraysOf(Mags, {1, 2})

ColInputs == ScalarsOf(Cols) \cup ArraysOf(Cols, {1, 2})

\* ------------------------------------------------------------ actions

Init ==
    /\ phase = "new"
    /\ ctor = [cls |-> "none", arg |-> <<>>, opened |-> <<>>, outcome |-> "none"]
    /\ map = <<>>
    /\ mag_bins = <<>>
    /\ nside = 0
    /\ last = NoCall
    /\ th = [t \in Threads |-> IdleThread]

\* cls(arg): the constructor runs to its end or raises.
Construct ==
    /\ phase = "new"
    /\ \E c \in {BASE, TGAS, RAVE} : \E a \in CtorArgs(c) :
        LET r == construct(c, a)
        IN  /\ ctor' = [cls |-> c, arg |-> a, opened |-> r.opened,
                        outcome |-> r.outcome]
            /\ phase' = IF r.outcome = "ok" THEN "live" ELSE "failed"
            /\ map' = r.map
            /\ mag_bins' = r.mag_bins
            /\ nside' = r.nside
    /\ UNCHANGED <<last, th>>

Ready == phase = "live" /\ last.op = "none"

\* sf(l, b, mag) on an instance whose class does not override __call__.
Call ==
    /\ Ready
    /\ ctor.cls # RAVE
    /\ \E l \in LInputs, b \in BInputs, mag \in MagInputs :
        last' = [op |-> "call", l |-> l, b |-> b, mag |-> mag, col |-> NoArg,
                 out |-> base_call(map, mag_bins, nside, l, b, mag)]
    /\ UNCHANGED <<phase, ctor, map, mag_bins, nside, th>>

\* sf(l, b, mag, col) on a SelectionFunctionTGASRAVE.
CallRave ==
    /\ Ready
    /\ ctor.cls = RAVE
    /\ \E l \in LInputs, b \in BInputs, mag \in MagInputs, col \in ColInputs :
        /\ last' = [op |-> "rave", l |-> l, b |-> b, mag |-> mag, col |-> col,
                    out |-> rave_call(map, mag_bins, nside, l, b, mag, col)]
        /\ map' = StoreAfterCut(map, lb2pix(nside, l, b),
                    nearest_idx(mag_bins, clip(mag, npmin(mag_bins), npmax(mag_bins))),
                    cut_mask(b, col))
    /\ UNCHANGED <<phase, ctor, mag_bins, nside, th>>

\* sf.sky_plot(mag).
SkyPlot ==
    /\ Ready
    /\ \E mag \in SkyMags :
        last' = [op |-> "sky", l |-> NoArg, b |-> NoArg, mag |-> Scalar(mag),
                 col |-> NoArg, out |-> sky_plot(map, mag_bins, mag)]
    /\ UNCHANGED <<phase, ctor, map, mag_bins, nside, th>>

\* sf.magnitude_plot().
MagnitudePlot ==
    /\ Ready
    /\ last' = [op |-> "magnitude", l |-> NoArg, b |-> NoArg, mag |-> NoArg,
                col |-> NoArg, out |-> magnitude_plot(map, mag_bins)]
    /\ UNCHANGED <<phase, ctor, map, mag_bins, nside, th>>

\* The caller drops the result and is free to call again.
Discard ==
    /\ phase = "live"
    /\ last.op # "none"
    /\ last' = NoCall
    /\ UNCHANGED <<phase, ctor, map, mag_bins, nside, th>>

Next ==
    \/ Construct
    \/ Call
    \/ CallRave
    \/ SkyPlot
    \/ MagnitudePlot
    \/ Discard

Spec == Init /\ [][Next]_vars

\* ------------------------------------------- concurrent __call__s

\* Calls the threads make: points on one pixel on either side of the cut,
\* arrays, and shapes that do not fit.
RaveThreadArgs ==
    {[l |-> Scalar(0), b |-> Scalar(24), mag |-> Scalar(11), col |-> Scalar(c)] :
        c \in {4, 5}}
    \cup {[l |-> Scalar(0), b |-> Arr(<<24, 90>>), mag |-> Arr(<<8, 11>>),
           col |-> Arr(<<5, 4>>)],
          [l |-> Scalar(0), b |-> Scalar(24), mag |-> Arr(<<11, 16>>),
           col |-> Scalar(4)]}

BaseThreadArgs ==
    {[l |-> Scalar(0), b |-> Scalar(24), mag |-> Scalar(11), col |-> NoArg],
     [l |-> Arr(<<0, 200>>), b |-> Scalar(90), mag |-> Arr(<<8, 16>>), col |-> NoArg],
     [l |-> Arr(<<0, 200>>), b |-> Arr(<<24, 25, -25>>), mag |-> Scalar(12),
      col |-> NoArg],
     [l |-> Scalar(200), b |-> Arr(<<24, 25, -25>>), mag |-> Arr(<<8, 11>>),
      col |-> NoArg]}

ThreadArgs == IF ctor.cls = RAVE THEN RaveThreadArgs ELSE BaseThreadArgs

InitThreads ==
    /\ \E c \in {TGAS, RAVE} :
        LET r == construct(c, 80)
        IN  /\ ctor = [cls |-> c, arg |-> 80, opened |-> r.opened,
                       outcome |-> r.outcome]
            /\ map = r.map
            /\ mag_bins = r.mag_bins
            /\ nside = r.nside
    /\ phase = "live"
    /\ last = NoCall
    /\ th = [t \in Threads |-> IdleThread]

Finished(t, result) == th' = [th EXCEPT ![t].pc = "done", ![t].out = result]

\* Thread t enters __call__.
Start(t) ==
    /\ th[t].pc = "idle"
    /\ \E a \in ThreadArgs :
        th' = [th EXCEPT ![t] = [IdleThread EXCEPT !.pc = "clip", !.args = a,
                                                   !.mag = a.mag]]
    /\ UNCHANGED <<phase, ctor, map, mag_bins, nside, last>>

\* mag = np.clip(mag, np.min(self.mag_bins), np.max(self.mag_bins))
StepClip(t) ==
    /\ th[t].pc = "clip"
    /\ th' = [th EXCEPT ![t].pc = "pix",
                        ![t].mag = clip(th[t].mag, npmin(mag_bins), npmax(mag_bins))]
    /\ UNCHANGED <<phase, ctor, map, mag_bins, nside, last>>

\* pix = lb2pix(self.nside, l, b)
StepPix(t) ==
    /\ th[t].pc = "pix"
    /\ LET pix == lb2pix(nside, th[t].args.l, th[t].args.b)
       IN  IF IsErr(pix)
           THEN Finished(t, pix)
           ELSE th' = [th EXCEPT ![t].pc = "idx", ![t].pix = pix]
    /\ UNCHANGED <<phase, ctor, map, mag_bins, nside, last>>

\* mag_idx = np.abs(np.subtract.outer(self.mag_bins, mag)).argmin(0)
StepIdx(t) ==
    /\ th[t].pc = "idx"
    /\ th' = [th EXCEPT ![t].pc = "index",
                        ![t].mag_idx = nearest_idx(mag_bins, th[t].mag)]
    /\ UNCHANGED <<phase, ctor, map, mag_bins, nside, last>>

\* return self.map[pix, mag_idx]  /  fracs = np.atleast_1d(self.map[pix, mag_idx])
StepIndex(t) ==
    /\ th[t].pc = "index"
    /\ LET got == fancy_index(map, th[t].pix, th[t].mag_idx)
       IN  IF IsErr(got) \/ ctor.cls # RAVE
           THEN Finished(t, got)
           ELSE th' = [th EXCEPT ![t].pc = "cut", ![t].fracs = atleast_1d(got)]
    /\ UNCHANGED <<phase, ctor, map, mag_bins, nside, last>>

\* fracs[(np.abs(np.atleast_1d(b))<25.)&(np.atleast_1d(col)<0.5)] = 0.
StepCut(t) ==
    /\ th[t].pc = "cut"
    /\ LET mask == cut_mask(th[t].args.b, th[t].args.col)
           zeroed == zero_where(th[t].fracs, mask)
       IN  /\ IF IsErr(zeroed)
              THEN Finished(t, zeroed)
              ELSE th' = [th EXCEPT ![t].pc = "ret", ![t].fracs = zeroed]
           /\ map' = StoreAfterCut(map, th[t].pix, th[t].mag_idx, mask)
    /\ UNCHANGED <<phase, ctor, mag_bins, nside, last>>

\* return fracs
StepReturn(t) ==
    /\ th[t].pc = "ret"
    /\ Finished(t, th[t].fracs)
    /\ UNCHANGED <<phase, ctor, map, mag_bins, nside, last>>

\* The thread's caller drops the result; the thread may call again.
Drop(t) ==
    /\ th[t].pc = "done"
    /\ th' = [th EXCEPT ![t] = IdleThread]
    /\ UNCHANGED <<phase, ctor, map, mag_bins, nside, last>>

NextThreads ==
    \E t \in Threads :
        \/ Start(t)
        \/ StepClip(t)
        \/ StepPix(t)
        \/ StepIdx(t)
        \/ StepIndex(t)
        \/ StepCut(t)
        \/ StepReturn(t)
        \/ Drop(t)

SpecThreads == InitThreads /\ [][NextThreads]_vars

\* ------------------------------------------------------------- claims

\* The single caller's last call was an evaluate (3 or 4 arguments).
IsEval == last.op \in {"call", "rave"}

IsRave == last.op = "rave"

Returned == IsEval /\ ~IsErr(last.out)

PointQuery ==
    /\ last.l.nd = 0
    /\ last.b.nd = 0
    /\ last.mag.nd = 0
    /\ (IsRave => last.col.nd = 0)

LoBin == npmin(mag_bins)

HiBin == npmax(mag_bins)

Clamp(x) == IF x < LoBin THEN LoBin ELSE IF x > HiBin THEN HiBin ELSE x

\* The lowest index among the bins nearest to x.
NearestLowest(x) ==
    CHOOSE m \in DOMAIN mag_bins :
        \A k \in DOMAIN mag_bins :
            \/ Abs(mag_bins[m] - x) < Abs(mag_bins[k] - x)
            \/ Abs(mag_bins[m] - x) = Abs(mag_bins[k] - x) /\ m <= k

\* Point i of the last evaluate, after broadcasting.
PixOf(i) == ang2pix_nest(nside, At(last.l, i), At(last.b, i))

MagOf(i) == At(last.mag, i)

CutAt(i) == IsRave /\ Abs(At(last.b, i)) < 25 /\ At(last.col, i) < 5

Points == 1..Size(last.out)

\* The outcome of the last evaluate's class of call on other arguments.
Evaluate(l, b, mag, col) ==
    IF IsRave
    THEN rave_call(map, mag_bins, nside, l, b, mag, col)
    ELSE base_call(map, mag_bins, nside, l, b, mag)

ClampedMag == [nd |-> last.mag.nd, v |-> [i \in 1..Size(last.mag) |-> Clamp(last.mag.v[i])]]

\* C1: an evaluate with magnitudes outside [min(mag_bins), max(mag_bins)] has
\* the outcome of the same evaluate with those magnitudes replaced by the
\* nearer end of the range (so it raises only if that one does), and each such
\* point that is not cut gets the grid value of its pixel at the bin holding
\* that end: an index inside the second axis.
C1_Clamping ==
    IsEval =>
        /\ last.out = Evaluate(last.l, last.b, ClampedMag, last.col)
        /\ Returned => \A i \in Points :
            /\ (MagOf(i) < LoBin /\ ~CutAt(i)) =>
                \E m \in DOMAIN mag_bins :
                    mag_bins[m] = LoBin /\ last.out.v[i] = map[PixOf(i)][m]
            /\ (MagOf(i) > HiBin /\ ~CutAt(i)) =>
                \E m \in DOMAIN mag_bins :
                    mag_bins[m] = HiBin /\ last.out.v[i] = map[PixOf(i)][m]

\* An evaluate returned with a point above the range at the last bin's value
\* (which differs from the first bin's).
C1_Witness ==
    /\ Returned
    /\ \E i \in Points :
        /\ MagOf(i) > HiBin
        /\ ~CutAt(i)
        /\ last.out.v[i] # map[PixOf(i)][0]
        /\ last.out.v[i] # 0

\* C2: the colour-aware evaluate of a single point never raises, and every
\* point of a returned colour-aware evaluate with |b| < 25 and colour < 0.5 has
\* completeness 0, whatever the grid holds there.
C2_ColorCut ==
    IsRave =>
        /\ PointQuery => ~IsErr(last.out)
        /\ Returned => \A i \in Points : CutAt(i) => last.out.v[i] = 0

\* A point inside the cut was returned as 0 although the grid holds a value
\* other than 0 at its pixel and bin.
C2_Witness ==
    /\ IsRave
    /\ Returned
    /\ \E i \in Points :
        /\ CutAt(i)
        /\ last.out.v[i] = 0
        /\ map[PixOf(i)][NearestLowest(Clamp(MagOf(i)))] # 0

\* C3: every point of a colour-aware evaluate outside the cut (|b| >= 25 or
\* colour >= 0.5) has the value of the base lookup on the same grid,
\* grid[pixel, nearest bin of the clipped magnitude]; a single such point
\* never raises.
C3_OutsideCut ==
    IsRave =>
        /\ PointQuery => ~IsErr(last.out)
        /\ Returned =>
            LET base == base_call(map, mag_bins, nside, last.l, last.b, last.mag)
            IN  /\ ~IsErr(base)
                /\ \A i \in Points : ~CutAt(i) =>
                    /\ last.out.v[i] = At(base, i)
                    /\ last.out.v[i] = map[PixOf(i)][NearestLowest(Clamp(MagOf(i)))]

\* One returned call holds a point with |b| = 25 and colour < 0.5 and a point
\* with |b| < 25 and colour = 0.5, both with a value other than 0.
C3_Witness ==
    /\ IsRave
    /\ Returned
    /\ \E i \in Points :
        /\ Abs(At(last.b, i)) = 25
        /\ At(last.col, i) < 5
        /\ last.out.v[i] # 0
    /\ \E i \in Points :
        /\ Abs(At(last.b, i)) < 25
        /\ At(last.col, i) = 5
        /\ last.out.v[i] # 0

\* C4: a subclass constructor given an nside other than exactly 8 or 32 raises
\* ValueError and opens no file.
C4_OnlyExactNside ==
    (ctor.cls \in {TGAS, RAVE} /\ ctor.arg \notin {80, 320}) =>
        /\ ctor.outcome = "ValueError"
        /\ ctor.opened = <<>>

\* C5: a constructed instance has num_pixels = 12 * nside^2.
C5_PixelCount ==
    phase = "live" => Cardinality(DOMAIN map) = 12 * nside * nside

\* The shapes of the last evaluate's arguments.
EvalArgs == IF IsRave THEN {last.l, last.b, last.mag, last.col}
            ELSE {last.l, last.b, last.mag}

\* C6: an evaluate whose arguments broadcast returns a value of their
\* broadcast shape: a scalar if all are scalars, else an array of the common
\* length.
C6_BroadcastShape ==
    (IsEval /\ \A x, y \in EvalArgs : Broadcastable(x, y)) =>
        /\ ~IsErr(last.out)
        /\ \A x \in EvalArgs : last.out.nd >= x.nd /\ Size(last.out) >= Size(x)
        /\ \E x \in EvalArgs : last.out.nd = x.nd
        /\ \E x \in EvalArgs : Size(last.out) = Size(x)

\* C7: sky_plot raises ValueError exactly for mag < min(mag_bins) or
\* mag > max(mag_bins), both ends accepted, while the evaluate of the same mag
\* returns the value at the bin holding the nearer end.
C7_SkyPlotRange ==
    last.op = "sky" =>
        LET mag == last.mag.v[1]
            outside == \/ \A m \in DOMAIN mag_bins : mag < mag_bins[m]
                       \/ \A m \in DOMAIN mag_bins : mag > mag_bins[m]
            point == base_call(map, mag_bins, nside, Scalar(0), Scalar(90), last.mag)
        IN  /\ IsErr(last.out) <=> outside
            /\ IsErr(last.out) => last.out.err = "ValueError"
            /\ ~IsErr(point)
            /\ outside => \E m \in DOMAIN mag_bins :
                /\ mag_bins[m] = Clamp(mag)
                /\ point.v[1] = map[ang2pix_nest(nside, 0, 90)][m]

\* sky_plot raised for a magnitude above the last bin.
C7_Witness ==
    /\ last.op = "sky"
    /\ last.mag.v[1] > HiBin
    /\ IsErr(last.out)

\* C9: the bin of every point of a returned evaluate is nearest to the clipped
\* magnitude and is the lowest index among the nearest; a magnitude equal to a
\* bin gets that bin.  (Points inside the colour cut return 0 and show no bin.)
C9_NearestBin ==
    Returned => \A i \in Points : ~CutAt(i) =>
        LET x == Clamp(MagOf(i))
        IN  /\ \E m \in DOMAIN mag_bins :
                /\ last.out.v[i] = map[PixOf(i)][m]
                /\ \A k \in DOMAIN mag_bins :
                    Abs(mag_bins[m] - x) <= Abs(mag_bins[k] - x)
                /\ \A k \in DOMAIN mag_bins :
                    Abs(mag_bins[k] - x) = Abs(mag_bins[m] - x) => m <= k
            /\ \A m \in DOMAIN mag_bins :
                mag_bins[m] = MagOf(i) => last.out.v[i] = map[PixOf(i)][m]

\* A magnitude midway between two bins got the lower one, whose value differs
\* from the upper one's.
C9_Witness ==
    /\ Returned
    /\ \E i \in Points : \E m \in DOMAIN mag_bins :
        /\ ~CutAt(i)
        /\ m + 1 \in DOMAIN mag_bins
        /\ MagOf(i) - mag_bins[m] = mag_bins[m + 1] - MagOf(i)
        /\ last.out.v[i] = map[PixOf(i)][m]
        /\ last.out.v[i] # map[PixOf(i)][m + 1]

\* C10: no step of a constructed instance (an evaluate, sky_plot or
\* magnitude_plot, returning or raising) changes map, mag_bins or nside.
C10_Frame ==
    [][phase = "live" => (map' = map /\ mag_bins' = mag_bins /\ nside' = nside)]_vars

\* The colour-aware evaluate zeroed a point whose stored grid entry is still
\* other than 0.
C10_Witness ==
    /\ IsRave
    /\ Returned
    /\ \E i \in Points :
        /\ CutAt(i)
        /\ last.out.v[i] = 0
        /\ \E m \in DOMAIN mag_bins :
            mag_bins[m] = Clamp(MagOf(i)) /\ map[PixOf(i)][m] > 0

\* What thread t's call returns when run alone on the instance.
Alone(t) ==
    IF ctor.cls = RAVE
    THEN rave_call(map, mag_bins, nside, th[t].args.l, th[t].args.b,
                   th[t].args.mag, th[t].args.col)
    ELSE base_call(map, mag_bins, nside, th[t].args.l, th[t].args.b, th[t].args.mag)

\* C8: whatever the interleaving, a finished call has the outcome it has when
\* run alone, and finished calls with the same arguments have the same outcome.
C8_Pure ==
    /\ \A t \in Threads : th[t].pc = "done" => th[t].out = Alone(t)
    /\ \A t, u \in Threads :
        (th[t].pc = "done" /\ th[u].pc = "done" /\ th[t].args = th[u].args)
            => th[t].out = th[u].out

\* Two threads finished calls at one pixel and bin, one zeroed by the cut and
\* one not.
C8_Witness ==
    \E t, u \in Threads :
        /\ th[t].pc = "done"
        /\ th[u].pc = "done"
        /\ th[t].args.l = th[u].args.l
        /\ th[t].args.b = th[u].args.b
        /\ th[t].args.mag = th[u].args.mag
        /\ ~IsErr(th[t].out)
        /\ ~IsErr(th[u].out)
        /\ th[t].out.v[1] = 0
        /\ th[u].out.v[1] > 0

====
